---- MODULE Spec2Model ----
(***************************************************************************)
(* Model of the HMP command adapter layer, monitor/hmp-cmds.c.             *)
(*                                                                         *)
(* A monitor session dispatches one command at a time; every shim runs to  *)
(* completion before the next command is read.  The text written with      *)
(* monitor_printf/monitor_puts is kept in `out` as a sequence of chunks,   *)
(* one chunk per call, each chunk the tuple of the format's literal pieces *)
(* and its arguments (numbers printed with %d are their decimal string).   *)
(* `log` keeps the calls of the shim that matter for ownership: MAPI       *)
(* calls, error descriptors set, relayed and freed, record trees           *)
(* allocated, read and released.                                           *)
(***************************************************************************)
EXTENDS Integers, Sequences, FiniteSets, TLC

VARIABLES
    config,       \* build configuration: [tpm, vnc], CONFIG_TPM / CONFIG_VNC
    ncpus,        \* number of vCPUs of the machine
    mon_cpu,      \* the session's selected CPU index
    qsp_enabled,  \* process-wide sync profiler toggle
    qsp_entries,  \* process-wide sync profiler counters
    suspended,    \* the session was suspended by monitor_suspend
    crashed,      \* the process was killed while running a shim
    pc,           \* "idle" in a session; "call"/"return" around one function
    cmd,          \* the command (or call) last dispatched, with its inputs
    out,          \* text written by the last command
    log,          \* calls made by the last command
    ret           \* what the last command built or returned

vars == <<config, ncpus, mon_cpu, qsp_enabled, qsp_entries, suspended,
          crashed, pc, cmd, out, log, ret>>

session == <<config, ncpus, mon_cpu, qsp_enabled, qsp_entries, suspended>>

-----------------------------------------------------------------------------
(* Bounds of the model.                                                    *)

MaxSchemaLen == 3
MaxStatsLen == 3
MaxResults == 2
MaxNamesLen == 3
MaxCpus == 2
MaxEntries == 2
MaxListLen == 3
MaxExponent == 70

-----------------------------------------------------------------------------
(* Values.                                                                 *)

\* A null char pointer / a null Error pointer.
NullStr == "(null)"
NoErr == "(no error)"

\* An optional string given as a sequence of characters.
NoChars == [has |-> FALSE, val |-> <<>>]
SomeChars(s) == [has |-> TRUE, val |-> s]

\* Pretty descriptions of the errors the MAPI may return.
ErrMsgs == {"e1", "e2"}

\* Stat names.
Names == {"a", "b"}

\* The QAPI enum tables; value v is spelled lookup[v + 1].
StatsTarget_lookup == <<"vm", "vcpu">>
StatsProvider_lookup == <<"kvm", "cryptodev">>
STATS_TARGET_VM == 0
STATS_TARGET_VCPU == 1
STATS_TARGET__MAX == Len(StatsTarget_lookup)
STATS_PROVIDER__MAX == Len(StatsProvider_lookup)
Targets == 0 .. (STATS_TARGET__MAX - 1)
Providers == 0 .. (STATS_PROVIDER__MAX - 1)
StatsProvider_str(p) == StatsProvider_lookup[p + 1]

\* qapi_enum_parse(lookup, buf, def, errp): the value spelled buf, or def
\* with an error set.
qapi_enum_parse(lookup, buf, def) ==
    LET hits == {i \in DOMAIN lookup : lookup[i] = buf}
    IN  IF buf = NullStr THEN [val |-> def, err |-> NoErr]
        ELSE IF hits = {} THEN [val |-> def, err |-> "invalid parameter"]
        ELSE [val |-> (CHOOSE i \in hits : TRUE) - 1, err |-> NoErr]

SeqsUpTo(S, n) == UNION {[1 .. k -> S] : k \in 0 .. n}

Count(s, P(_)) == Cardinality({i \in DOMAIN s : P(s[i])})

-----------------------------------------------------------------------------
(* Stats schema renderer.                                                  *)

\* A schema value as the renderer's inputs carry it here: only the name
\* varies, the rest is a cumulative counter without unit.
SchemaValue(n) ==
    [name |-> n, type |-> "cumulative", has_unit |-> FALSE, unit |-> "seconds",
     base |-> 10, exponent |-> 0, has_bucket_size |-> FALSE, bucket_size |-> 0]

StatsValues ==
    { [type |-> "QNUM", scalar |-> 5, boolean |-> FALSE, list |-> <<>>],
      [type |-> "QBOOL", scalar |-> 0, boolean |-> TRUE, list |-> <<>>],
      [type |-> "QLIST", scalar |-> 0, boolean |-> FALSE, list |-> <<3, 4>>] }

si_prefix(exponent) ==
    CASE exponent = -18 -> "a" [] exponent = -15 -> "f" [] exponent = -12 -> "p"
      [] exponent = -9 -> "n"  [] exponent = -6 -> "u"  [] exponent = -3 -> "m"
      [] exponent = 0 -> ""    [] exponent = 3 -> "K"   [] exponent = 6 -> "M"
      [] exponent = 9 -> "G"   [] exponent = 12 -> "T"  [] exponent = 15 -> "P"
      [] exponent = 18 -> "E"

iec_binary_prefix(exponent) ==
    CASE exponent = 0 -> ""    [] exponent = 10 -> "Ki" [] exponent = 20 -> "Mi"
      [] exponent = 30 -> "Gi" [] exponent = 40 -> "Ti" [] exponent = 50 -> "Pi"
      [] exponent = 60 -> "Ei"

\* A variant of the remainder test that takes no negative exponent.
CRemIsZero_positive(x, m) == x >= 0 /\ x % m = 0

\* C's % truncates toward zero: x % m = 0 exactly when m divides |x|.
CRemIsZero(x, m) == (IF x < 0 THEN -x ELSE x) % m = 0

print_stats_schema_value(value) ==
    LET letter == IF ~value.has_unit THEN NullStr
                  ELSE IF value.unit = "seconds" THEN "s"
                  ELSE IF value.unit = "bytes" THEN "B"
                  ELSE NullStr
        head == <<"    ", value.name, " (", value.type,
                  IF value.has_unit \/ value.exponent # 0 THEN ", " ELSE "">>
        si == letter # NullStr /\ value.base = 10
              /\ value.exponent >= -18 /\ value.exponent <= 18
              /\ CRemIsZero(value.exponent, 3)
        iec == letter # NullStr /\ value.base = 2
               /\ value.exponent >= 0 /\ value.exponent <= 60
               /\ CRemIsZero(value.exponent, 10)
        prefix == IF si THEN << <<si_prefix(value.exponent)>> >>
                  ELSE IF iec THEN << <<iec_binary_prefix(value.exponent)>> >>
                  ELSE IF value.exponent # 0
                       THEN << <<"* ", ToString(value.base), "^",
                                 ToString(value.exponent),
                                 IF value.has_unit THEN " " ELSE "">> >>
                  ELSE <<>>
        unit == IF si \/ iec \/ value.exponent = 0 THEN letter ELSE NullStr
        name == IF ~value.has_unit THEN <<>>
                ELSE << <<IF unit # NullStr THEN unit ELSE value.unit>> >>
        bucket == IF value.type = "linear-histogram" /\ value.has_bucket_size
                  THEN << <<", bucket size=", ToString(value.bucket_size)>> >>
                  ELSE <<>>
    IN  <<head>> \o prefix \o name \o bucket \o << <<")">> >>

RECURSIVE find_schema_value_list(_, _, _)
find_schema_value_list(list, provider, target) ==
    IF list = <<>> THEN <<>>
    ELSE IF Head(list).provider = provider /\ Head(list).target = target
         THEN Head(list).stats
         ELSE find_schema_value_list(Tail(list), provider, target)

\* The value of one stat, lines 404-419.
RECURSIVE print_uint64List(_, _)
print_uint64List(list, i) ==
    IF list = <<>> THEN <<>>
    ELSE << <<"[", ToString(i), "]=", ToString(Head(list)), " ">> >>
         \o print_uint64List(Tail(list), i + 1)

print_stats_value(v) ==
    IF v.type = "QNUM" THEN << <<": ", ToString(v.scalar), "\n">> >>
    ELSE IF v.type = "QBOOL"
         THEN << <<": ", IF v.boolean THEN "yes" ELSE "no", "\n">> >>
    ELSE IF v.type = "QLIST"
         THEN << <<": ">> >> \o print_uint64List(v.list, 1) \o << <<"\n">> >>
    ELSE <<>>

\* A variant of the entry search that does not scan forward: the stat must
\* sit at the cursor.
find_schema_entry_lockstep(svl, ci, name) ==
    IF svl[ci].name = name THEN ci ELSE 0

\* The search of lines 392-400, from a cursor ci that is not null: the
\* position of the first entry at or after ci named `name`, or 0 when the
\* list ends first.
RECURSIVE find_schema_entry(_, _, _)
find_schema_entry(svl, ci, name) ==
    IF svl[ci].name = name THEN ci
    ELSE IF ci = Len(svl) THEN 0
    ELSE find_schema_entry(svl, ci + 1, name)

\* The loop of lines 383-420.  si is the stats cursor, ci the schema cursor;
\* ci = Len(svl) + 1 is the null pointer that ->next of the last node gives.
\* acc.cursor lists the schema cursor at every point it is dereferenced,
\* acc.rendered the (stat, schema entry) pairs printed.
RECURSIVE stats_loop(_, _, _, _, _)
stats_loop(stats, svl, si, ci, acc) ==
    IF si > Len(stats) THEN [acc EXCEPT !.status = "done"]
    ELSE IF ci > Len(svl)
         THEN [acc EXCEPT !.status = "nullderef", !.cursor = Append(@, ci)]
    ELSE LET f == find_schema_entry(svl, ci, stats[si].name)
         IN  IF f = 0
             THEN [acc EXCEPT
                     !.status = "aborted",
                     !.cursor = @ \o [k \in 1 .. (Len(svl) - ci + 1) |-> ci + k - 1],
                     !.out = Append(@, <<"failed to find schema entry for ",
                                         stats[si].name, "\n">>)]
             ELSE stats_loop(stats, svl, si + 1, f + 1,
                    [acc EXCEPT
                       !.cursor = @ \o [k \in 1 .. (f - ci + 1) |-> ci + k - 1],
                       !.rendered = Append(@, <<si, f>>),
                       !.out = @ \o print_stats_schema_value(svl[f])
                                 \o print_stats_value(stats[si].value)])

print_stats_results(target, show_provider, result, schema) ==
    LET svl == find_schema_value_list(schema, result.provider, target)
    IN  IF svl = <<>>
        THEN [status |-> "no_schema_list", cursor |-> <<>>, rendered |-> <<>>,
              out |-> << <<"failed to find schema list for ",
                           StatsProvider_str(result.provider), "\n">> >>]
        ELSE stats_loop(result.stats, svl, 1, 1,
                        [status |-> "running", cursor |-> <<>>, rendered |-> <<>>,
                         out |-> IF show_provider
                                 THEN << <<"provider: ",
                                           StatsProvider_str(result.provider),
                                           "\n">> >>
                                 ELSE <<>>])

\* What dereferencing the null schema cursor (line 389) can do: the process
\* is killed by the fault, or the read goes through and the renderer leaves
\* this result with what it printed so far.
UBOutcomes(status) ==
    IF status = "nullderef" THEN {"segv", "wild"} ELSE {"defined"}

-----------------------------------------------------------------------------
(* Specification of the renderer alone: the inputs are drawn in the        *)
(* initial state, one step runs print_stats_results on them.               *)

SchemaValueLists == {[i \in DOMAIN s |-> SchemaValue(s[i])] :
                        s \in SeqsUpTo(Names, MaxSchemaLen)}

StatsLists == {[i \in DOMAIN s |-> [name |-> s[i], value |-> v]] :
                  s \in SeqsUpTo(Names, MaxStatsLen), v \in StatsValues}

SchemaEntries == [provider : Providers, target : Targets, stats : SchemaValueLists]

\* A schema list: empty, one entry, or an entry behind the vm schema of
\* provider 0.
RenderSchemas ==
    {<<>>} \cup {<<e>> : e \in SchemaEntries}
           \cup {<<[provider |-> 0, target |-> STATS_TARGET_VM,
                    stats |-> <<SchemaValue("b")>>], e>> : e \in SchemaEntries}

IdleSession ==
    /\ config = [tpm |-> TRUE, vnc |-> TRUE]
    /\ ncpus = 1
    /\ mon_cpu = 0
    /\ qsp_enabled = FALSE
    /\ qsp_entries = 0
    /\ suspended = FALSE
    /\ crashed = FALSE

InitRender ==
    /\ IdleSession
    /\ pc = "call"
    /\ cmd \in [name : {"print_stats_results"}, target : Targets,
                show_provider : BOOLEAN,
                result : [provider : Providers, stats : StatsLists],
                schema : RenderSchemas]
    /\ out = <<>>
    /\ log = <<>>
    /\ ret = [status |-> "none"]

RenderCall ==
    /\ pc = "call"
    /\ cmd.name = "print_stats_results"
    /\ LET r == print_stats_results(cmd.target, cmd.show_provider,
                                    cmd.result, cmd.schema)
       IN  /\ ret' = r
           /\ out' = r.out
           /\ \E ub \in UBOutcomes(r.status) : crashed' = (ub = "segv")
    /\ pc' = "return"
    /\ UNCHANGED <<session, cmd, log>>

NextRender == RenderCall

SpecRender == InitRender /\ [][NextRender]_vars

-----------------------------------------------------------------------------
(* Comma splitter and stats filter builder.                                *)

\* g_strsplit(str, ",", -1) on a non-empty remainder: the fields between the
\* commas, empty fields kept.
RECURSIVE split_fields(_)
split_fields(s) ==
    LET commas == {i \in DOMAIN s : s[i] = ","}
    IN  IF commas = {} THEN <<s>>
        ELSE LET i == CHOOSE k \in commas : \A j \in commas : k <= j
             IN  <<SubSeq(s, 1, i - 1)>> \o split_fields(SubSeq(s, i + 1, Len(s)))

\* A null str defaults to ""; g_strsplit of "" is the empty vector.
hmp_split_at_comma(str) ==
    LET s == IF str.has THEN str.val ELSE <<>>
    IN  IF s = <<>> THEN <<>> ELSE split_fields(s)

\* The null CPUState pointer.
NullCpu == -1

\* qemu_get_cpu(index): the CPU of that index, or null.
qemu_get_cpu(index) == IF index \in 0 .. (ncpus - 1) THEN index ELSE NullCpu

\* object_get_canonical_path(OBJECT(cpu)).  Filter construction does not
\* fail: for the null CPU the path names no vCPU.
object_get_canonical_path(cpu) == <<"/machine/cpu", ToString(cpu)>>

\* A variant of the request that forgets the "*" wildcard.
stats_request_nostar(provider_idx, names) ==
    [provider |-> provider_idx, has_names |-> names.has,
     names |-> IF names.has THEN hmp_split_at_comma(names) ELSE <<>>]

\* Lines 461-466: the request for one provider.
stats_request(provider_idx, names) ==
    IF names.has /\ names.val # <<"*">>
    THEN [provider |-> provider_idx, has_names |-> TRUE,
          names |-> hmp_split_at_comma(names)]
    ELSE [provider |-> provider_idx, has_names |-> FALSE, names |-> <<>>]

\* Lines 459-469: QAPI_LIST_PREPEND puts each new request in front.
RECURSIVE stats_request_loop(_, _, _, _)
stats_request_loop(provider_idx, provider, names, request_list) ==
    IF provider_idx >= STATS_PROVIDER__MAX THEN request_list
    ELSE stats_request_loop(provider_idx + 1, provider, names,
            IF provider = STATS_PROVIDER__MAX \/ provider = provider_idx
            THEN <<stats_request(provider_idx, names)>> \o request_list
            ELSE request_list)

stats_filter_build(target, names, cpu_index, provider) ==
    LET vcpu == target = STATS_TARGET_VCPU
        vcpu_list == IF vcpu
                     THEN <<object_get_canonical_path(qemu_get_cpu(cpu_index))>>
                     ELSE <<>>
        bare == ~names.has /\ provider = STATS_PROVIDER__MAX
    IN  [ok |-> TRUE, target |-> target, has_vcpus |-> vcpu, vcpus |-> vcpu_list,
         has_providers |-> ~bare,
         providers |-> IF bare THEN <<>>
                       ELSE stats_request_loop(0, provider, names, <<>>)]

\* A variant that refuses a CPU index that names no CPU.
stats_filter_checked(target, names, cpu_index, provider) ==
    IF target = STATS_TARGET_VCPU /\ qemu_get_cpu(cpu_index) = NullCpu
    THEN [ok |-> FALSE, target |-> target, has_vcpus |-> FALSE, vcpus |-> <<>>,
          has_providers |-> FALSE, providers |-> <<>>]
    ELSE stats_filter_build(target, names, cpu_index, provider)

\* stats_filter always returns the filter it allocated (ok).
stats_filter(target, names, cpu_index, provider) ==
    stats_filter_build(target, names, cpu_index, provider)

NoFilter == [ok |-> FALSE, target |-> -1, has_vcpus |-> FALSE, vcpus |-> <<>>,
             has_providers |-> FALSE, providers |-> <<>>]

-----------------------------------------------------------------------------
(* Error relay and the MAPI's replies.                                     *)

\* A reply of a MAPI entry point: the error set through errp (NoErr when it
\* succeeded) and the record tree returned, a sequence: <<>> is the null
\* pointer (always so on error), <<r>> a pointer to record r, a longer
\* sequence a list.
Reply(err, tree) == [err |-> err, tree |-> tree]
ErrReplies == {Reply(m, <<>>) : m \in ErrMsgs}
OkReply == Reply(NoErr, <<>>)
Unused == Reply(NoErr, <<>>)

\* The log of a call of MAPI entry point fn that was given an errp and
\* answered reply; a tree returned is an allocation named tree.
Called(fn, reply, tree) ==
    << <<"call", fn>> >>
    \o (IF reply.err # NoErr THEN << <<"error_set", fn, reply.err>> >> ELSE <<>>)
    \o (IF reply.tree # <<>> THEN << <<"alloc", tree>> >> ELSE <<>>)

\* qapi_free_T(tree) and g_autoptr cleanup: nothing to release for null.
Release(present, tree) == IF present THEN << <<"free", tree>> >> ELSE <<>>
Read(present, tree) == IF present THEN << <<"read", tree>> >> ELSE <<>>

\* error_free(err): no-op for null.
error_free(err) == IF err # NoErr THEN << <<"error_free", err>> >> ELSE <<>>

\* error_reportf_err(err, prefix): one line, the prefix and the error's
\* pretty description; the descriptor is freed.
error_reportf_err(err, prefix) ==
    [out |-> << <<prefix, err, "\n">> >>, log |-> error_free(err)]

hmp_handle_error(err) ==
    IF err # NoErr
    THEN [out |-> error_reportf_err(err, "Error: ").out,
          log |-> << <<"hmp_handle_error", err>> >>
                  \o error_reportf_err(err, "Error: ").log,
          ret |-> TRUE]
    ELSE [out |-> <<>>, log |-> <<>>, ret |-> FALSE]

-----------------------------------------------------------------------------
(* info stats.                                                             *)

UNASSIGNED_CPU_INDEX == -1

\* monitor_get_cpu_index(mon): the index of the session's CPU, the first CPU
\* by default, or UNASSIGNED_CPU_INDEX when the machine has none.
monitor_get_cpu_index == IF ncpus = 0 THEN UNASSIGNED_CPU_INDEX ELSE mon_cpu

\* A variant that takes the first CPU whatever the session selected.
stats_cpu_index_first(target) ==
    IF target = STATS_TARGET_VM THEN -1 ELSE 0

\* Lines 509-519: the CPU index handed to stats_filter.
stats_cpu_index(target) ==
    IF target = STATS_TARGET_VM THEN -1 ELSE monitor_get_cpu_index

\* A path names a vCPU of the machine.
IsVcpuPath(path) == \E c \in 0 .. (ncpus - 1) : path = object_get_canonical_path(c)

\* qmp_query_stats(filter, errp) reports a vcpu-list entry that names no
\* vCPU as an error.
StatsQueryMustFail(filter) ==
    filter.has_vcpus /\ \E i \in DOMAIN filter.vcpus : ~IsVcpuPath(filter.vcpus[i])

\* Lines 525-527: print_stats_results for each entry in turn.  A null
\* dereference in the renderer that kills the process (ub = "segv") ends
\* the loop there.
RECURSIVE stats_results_loop(_, _, _, _, _, _, _)
stats_results_loop(target, show_provider, stats, schema, i, ub, acc) ==
    IF i > Len(stats) THEN acc
    ELSE LET r == print_stats_results(target, show_provider, stats[i], schema)
             acc2 == [acc EXCEPT
                        !.out = @ \o r.out,
                        !.calls = Append(@, i),
                        !.renders = Append(@, r.status),
                        !.log = @ \o Read(TRUE, "stats")
                                  \o Read(schema # <<>>, "schema")]
         IN  IF r.status = "nullderef" /\ ub = "segv"
             THEN [acc2 EXCEPT !.crashed = TRUE]
             ELSE stats_results_loop(target, show_provider, stats, schema,
                                     i + 1, ub, acc2)

\* Lines 529-534: the exit path for an error of a MAPI query.
stats_exit(err) ==
    [out |-> IF err # NoErr THEN << <<err, "\n">> >> ELSE <<>>,
     log |-> error_free(err)]

\* A variant of the parse failure that goes on to the exit label that
\* prints.
stats_parse_failed_print(what, str, err) ==
    [out |-> << <<"invalid stats ", what, " ", str, "\n">>, <<err, "\n">> >>,
     log |-> << <<"error_set", "qapi_enum_parse", err>> >> \o error_free(err)]

\* Lines 491-494 and 497-500 with 533-534: a spelling that did not parse.
stats_parse_failed(what, str, err) ==
    [out |-> << <<"invalid stats ", what, " ", str, "\n">> >>,
     log |-> << <<"error_set", "qapi_enum_parse", err>> >> \o error_free(err)]

StatsBase == [out |-> <<>>, log |-> <<>>, filter |-> NoFilter, calls |-> <<>>,
              renders |-> <<>>, crashed |-> FALSE, queried |-> FALSE]

hmp_info_stats(target_str, provider_str, names, schema_reply, stats_reply, ub) ==
    LET t == qapi_enum_parse(StatsTarget_lookup, target_str, -1)
        p == IF provider_str # NullStr
             THEN qapi_enum_parse(StatsProvider_lookup, provider_str, -1)
             ELSE [val |-> STATS_PROVIDER__MAX, err |-> NoErr]
        schema == schema_reply.tree
        stats == stats_reply.tree
        filter == stats_filter(t.val, names, stats_cpu_index(t.val), p.val)
        log1 == Called("qmp_query_stats_schemas", schema_reply, "schema")
        log2 == log1 \o << <<"alloc", "filter">> >>
                     \o Called("qmp_query_stats", stats_reply, "stats")
        \* g_autoptr cleanup, in reverse order of declaration
        cleanup == Release(TRUE, "filter") \o Release(stats # <<>>, "stats")
                   \o Release(schema # <<>>, "schema")
    IN  IF t.err # NoErr
        THEN [StatsBase EXCEPT
                !.out = stats_parse_failed("target", target_str, t.err).out,
                !.log = stats_parse_failed("target", target_str, t.err).log]
        ELSE IF p.err # NoErr
        THEN [StatsBase EXCEPT
                !.out = stats_parse_failed("provider", provider_str, p.err).out,
                !.log = stats_parse_failed("provider", provider_str, p.err).log]
        ELSE IF schema_reply.err # NoErr
        THEN [StatsBase EXCEPT
                !.out = stats_exit(schema_reply.err).out,
                !.log = log1 \o stats_exit(schema_reply.err).log]
        ELSE IF stats_reply.err # NoErr
        THEN [StatsBase EXCEPT
                !.filter = filter,
                !.queried = TRUE,
                !.out = stats_exit(stats_reply.err).out,
                !.log = log2 \o stats_exit(stats_reply.err).log
                             \o Release(TRUE, "filter")
                             \o Release(schema # <<>>, "schema")]
        ELSE LET r == stats_results_loop(t.val, provider_str = NullStr, stats,
                         schema, 1, ub,
                         [StatsBase EXCEPT !.filter = filter, !.queried = TRUE,
                                           !.log = log2])
             IN  IF r.crashed THEN r
                 ELSE [r EXCEPT !.log = @ \o cleanup]

\* The replies the two stats queries are drawn from.
Schema0 ==
    << [provider |-> 0, target |-> STATS_TARGET_VM,
        stats |-> <<SchemaValue("a"), SchemaValue("b")>>],
       [provider |-> 0, target |-> STATS_TARGET_VCPU,
        stats |-> <<SchemaValue("a"), SchemaValue("b")>>] >>

Stat(n) == [name |-> n, value |-> [type |-> "QNUM", scalar |-> 5,
                                   boolean |-> FALSE, list |-> <<>>]]

\* Results against Schema0: complete; a stat missing after the last schema
\* entry was consumed; a stat missing with schema entries left; a provider
\* without schema.
ResultGood == [provider |-> 0, stats |-> <<Stat("a"), Stat("b")>>]
ResultOverrun == [provider |-> 0, stats |-> <<Stat("b"), Stat("c")>>]
ResultMissing == [provider |-> 0, stats |-> <<Stat("c"), Stat("a")>>]
ResultNoSchema == [provider |-> 1, stats |-> <<Stat("a")>>]
ResultPool == {ResultGood, ResultOverrun, ResultMissing, ResultNoSchema}

SchemaReplies == ErrReplies \cup {Reply(NoErr, <<>>), Reply(NoErr, Schema0)}
StatsReplies == ErrReplies
                \cup {Reply(NoErr, l) : l \in SeqsUpTo(ResultPool, MaxResults)}

TargetArgs == {"vm", "vcpu", "cpu"}
ProviderArgs == {NullStr, "kvm", "cryptodev", "kvmm"}
StatsNamesArgs == {NoChars, SomeChars(<<"*">>), SomeChars(<<"a", ",", "b">>)}

ParsesOk(target_str, provider_str) ==
    /\ qapi_enum_parse(StatsTarget_lookup, target_str, -1).err = NoErr
    /\ provider_str # NullStr
         => qapi_enum_parse(StatsProvider_lookup, provider_str, -1).err = NoErr

\* The command "info stats": the arguments and the replies the MAPI gives
\* to the queries the shim gets to make.  A process killed in the renderer
\* never returns from the shim.
InfoStats(schemas, results) ==
    \E target_str \in TargetArgs, provider_str \in ProviderArgs,
       names \in StatsNamesArgs :
    \E schema_reply \in IF ParsesOk(target_str, provider_str)
                        THEN schemas ELSE {Unused} :
    \E stats_reply \in
         IF ParsesOk(target_str, provider_str) /\ schema_reply.err = NoErr
         THEN LET t == qapi_enum_parse(StatsTarget_lookup, target_str, -1).val
                  p == IF provider_str # NullStr
                       THEN qapi_enum_parse(StatsProvider_lookup, provider_str, -1).val
                       ELSE STATS_PROVIDER__MAX
                  f == stats_filter(t, names, stats_cpu_index(t), p)
              IN  IF f.ok /\ StatsQueryMustFail(f)
                  THEN ErrReplies ELSE results
         ELSE {Unused} :
    \E ub \in {"segv", "wild"} :
        /\ cmd' = [name |-> "info stats", target |-> target_str,
                   provider |-> provider_str, names |-> names,
                   schema_reply |-> schema_reply, stats_reply |-> stats_reply]
        /\ ret' = hmp_info_stats(target_str, provider_str, names,
                                 schema_reply, stats_reply, ub)
        /\ out' = ret'.out
        /\ log' = ret'.log
        /\ crashed' = ret'.crashed

(* Specification of info stats alone: one command on a session of any      *)
(* machine size and CPU selection.                                         *)

InitStats ==
    /\ config = [tpm |-> TRUE, vnc |-> TRUE]
    /\ ncpus \in 0 .. MaxCpus
    /\ mon_cpu \in {0} \cup (0 .. (ncpus - 1))
    /\ qsp_enabled = FALSE
    /\ qsp_entries = 0
    /\ suspended = FALSE
    /\ crashed = FALSE
    /\ pc = "idle"
    /\ cmd = [name |-> "none"]
    /\ out = <<>>
    /\ log = <<>>
    /\ ret = [status |-> "none"]

StatsCommand ==
    /\ pc = "idle"
    /\ InfoStats(SchemaReplies, StatsReplies)
    /\ pc' = IF crashed' THEN "killed" ELSE "done"
    /\ UNCHANGED session

NextStats == StatsCommand

SpecStats == InitStats /\ [][NextStats]_vars

-----------------------------------------------------------------------------
(* Command shims.  Each shim is an operator of its arguments and of the    *)
(* replies the MAPI gives it; it yields the text written (out), the calls  *)
(* made (log) and what it changed.                                         *)

Bool(b) == IF b THEN "true" ELSE "false"

HexDigit(d) == <<"0", "1", "2", "3", "4", "5", "6", "7",
                 "8", "9", "a", "b", "c", "d", "e", "f">>[d + 1]

\* printf("%0<w>x", n)
RECURSIVE Hex(_, _)
Hex(n, w) ==
    IF n < 16 /\ w <= 1 THEN HexDigit(n)
    ELSE Hex(n \div 16, w - 1) \o HexDigit(n % 16)

\* Template A: call the MAPI command, hand the error to the relay.
fire_and_report(fn, reply) ==
    [out |-> hmp_handle_error(reply.err).out,
     log |-> Called(fn, reply, "") \o hmp_handle_error(reply.err).log]

hmp_info_name(reply) ==
    LET info == reply.tree[1]
    IN  [out |-> IF info.name # NullStr THEN << <<info.name, "\n">> >> ELSE <<>>,
         log |-> << <<"call", "qmp_query_name">>, <<"alloc", "NameInfo">>,
                    <<"read", "NameInfo">>, <<"free", "NameInfo">> >>]

hmp_info_version(reply) ==
    LET info == reply.tree[1]
    IN  [out |-> << <<ToString(info.major), ".", ToString(info.minor), ".",
                      ToString(info.micro), info.package, "\n">> >>,
         log |-> << <<"call", "qmp_query_version">>, <<"alloc", "VersionInfo">>,
                    <<"read", "VersionInfo">>, <<"free", "VersionInfo">> >>]

\* A variant of info status that names the state also while running.
hmp_info_status_named(reply) ==
    LET info == reply.tree[1]
    IN  [out |-> << <<"VM status: ",
                      IF info.running THEN "running" ELSE "paused",
                      IF info.singlestep THEN " (single step mode)" ELSE "">> >>
                 \o (IF info.status # "paused"
                     THEN << <<" (", info.status, ")">> >> ELSE <<>>)
                 \o << <<"\n">> >>,
         log |-> << <<"call", "qmp_query_status">>, <<"alloc", "StatusInfo">>,
                    <<"read", "StatusInfo">>, <<"free", "StatusInfo">> >>]

hmp_info_status(reply) ==
    LET info == reply.tree[1]
    IN  [out |-> << <<"VM status: ",
                      IF info.running THEN "running" ELSE "paused",
                      IF info.singlestep THEN " (single step mode)" ELSE "">> >>
                 \o (IF ~info.running /\ info.status # "paused"
                     THEN << <<" (", info.status, ")">> >> ELSE <<>>)
                 \o << <<"\n">> >>,
         log |-> << <<"call", "qmp_query_status">>, <<"alloc", "StatusInfo">>,
                    <<"read", "StatusInfo">>, <<"free", "StatusInfo">> >>]

\* hmp_info_pic_foreach over the objects under the root, in order.
RECURSIVE hmp_info_pic(_)
hmp_info_pic(objects) ==
    IF objects = <<>> THEN [out |-> <<>>, log |-> <<>>]
    ELSE LET obj == Head(objects)
             rest == hmp_info_pic(Tail(objects))
         IN  IF ~obj.intc THEN rest
             ELSE IF obj.print_info
             THEN [out |-> << <<"pic: ", obj.type, "\n">> >> \o rest.out,
                   log |-> << <<"print_info", obj.type>> >> \o rest.log]
             ELSE [out |-> << <<"Interrupt controller information not available for ",
                                obj.type, ".\n">> >> \o rest.out,
                   log |-> rest.log]

RECURSIVE tpm_entries(_, _)
tpm_entries(list, c) ==
    IF list = <<>> THEN <<>>
    ELSE LET ti == Head(list)
         IN  << <<" tpm", ToString(c), ": model=", ti.model, "\n">>,
                <<"  \\ ", ti.id, ": type=", ti.type>> >>
             \o (IF ti.type = "passthrough"
                 THEN << <<IF ti.path # NullStr THEN ",path=" ELSE "",
                           IF ti.path # NullStr THEN ti.path ELSE "",
                           IF ti.cancel_path # NullStr THEN ",cancel-path=" ELSE "",
                           IF ti.cancel_path # NullStr THEN ti.cancel_path ELSE "">> >>
                 ELSE IF ti.type = "emulator"
                 THEN << <<",chardev=", ti.chardev>> >>
                 ELSE <<>>)
             \o << <<"\n">> >>
             \o tpm_entries(Tail(list), c + 1)

hmp_info_tpm(reply) ==
    IF ~config.tpm
    THEN [out |-> << <<"TPM device not supported\n">> >>, log |-> <<>>]
    ELSE IF reply.err # NoErr
    THEN [out |-> << <<"TPM device not supported\n">> >>,
          log |-> Called("qmp_query_tpm", reply, "TPMInfoList")
                  \o error_free(reply.err)]
    ELSE [out |-> (IF reply.tree # <<>> THEN << <<"TPM device:\n">> >> ELSE <<>>)
                  \o tpm_entries(reply.tree, 0),
          log |-> Called("qmp_query_tpm", reply, "TPMInfoList")
                  \o Read(reply.tree # <<>>, "TPMInfoList")
                  \o Release(reply.tree # <<>>, "TPMInfoList")]

\* A variant of quit that forwards the request before it suspends.
hmp_quit_late ==
    [out |-> <<>>, log |-> << <<"call", "qmp_quit">>, <<"monitor_suspend">> >>,
     suspended |-> TRUE]

hmp_quit ==
    [out |-> <<>>, log |-> << <<"monitor_suspend">>, <<"call", "qmp_quit">> >>,
     suspended |-> TRUE]

hmp_stop == [out |-> <<>>, log |-> << <<"call", "qmp_stop">> >>]

\* The sync profiler: a toggle and its counters.
qsp_is_enabled == qsp_enabled
qsp_enable == [enabled |-> TRUE, entries |-> qsp_entries]
qsp_disable == [enabled |-> FALSE, entries |-> qsp_entries]
qsp_reset == [enabled |-> qsp_enabled, entries |-> 0]
qsp_same == [enabled |-> qsp_enabled, entries |-> qsp_entries]

QERR_INVALID_PARAMETER(param) == "Invalid parameter '" \o param \o "'"

\* A variant of sync-profile that takes every unknown op for "reset".
hmp_sync_profile_lax(op) ==
    IF op = NullStr
    THEN [out |-> << <<"sync-profile is ", IF qsp_is_enabled THEN "on" ELSE "off",
                       "\n">> >>,
          log |-> << <<"qsp_is_enabled">> >>, qsp |-> qsp_same]
    ELSE IF op = "on"
    THEN [out |-> <<>>, log |-> << <<"qsp_enable">> >>, qsp |-> qsp_enable]
    ELSE IF op = "off"
    THEN [out |-> <<>>, log |-> << <<"qsp_disable">> >>, qsp |-> qsp_disable]
    ELSE [out |-> <<>>, log |-> << <<"qsp_reset">> >>, qsp |-> qsp_reset]

hmp_sync_profile(op) ==
    IF op = NullStr
    THEN [out |-> << <<"sync-profile is ", IF qsp_is_enabled THEN "on" ELSE "off",
                       "\n">> >>,
          log |-> << <<"qsp_is_enabled">> >>, qsp |-> qsp_same]
    ELSE IF op = "on"
    THEN [out |-> <<>>, log |-> << <<"qsp_enable">> >>, qsp |-> qsp_enable]
    ELSE IF op = "off"
    THEN [out |-> <<>>, log |-> << <<"qsp_disable">> >>, qsp |-> qsp_disable]
    ELSE IF op = "reset"
    THEN [out |-> <<>>, log |-> << <<"qsp_reset">> >>, qsp |-> qsp_reset]
    ELSE LET err == QERR_INVALID_PARAMETER(op)
         IN  [out |-> hmp_handle_error(err).out,
              log |-> << <<"error_set", "error_setg", err>> >>
                      \o hmp_handle_error(err).log,
              qsp |-> qsp_same]

hmp_exit_preconfig(reply) == fire_and_report("qmp_x_exit_preconfig", reply)

\* monitor_set_cpu(mon, cpu_index): select the CPU of that index; -1 and no
\* change when there is none.
monitor_set_cpu(cpu_index) ==
    IF qemu_get_cpu(cpu_index) = NullCpu
    THEN [ret |-> -1, mon_cpu |-> mon_cpu]
    ELSE [ret |-> 0, mon_cpu |-> cpu_index]

hmp_cpu(index) ==
    LET r == monitor_set_cpu(index)
    IN  [out |-> IF r.ret < 0 THEN << <<"invalid CPU index\n">> >> ELSE <<>>,
         log |-> << <<"monitor_set_cpu">> >>,
         mon_cpu |-> r.mon_cpu]

hmp_cont(reply) == fire_and_report("qmp_cont", reply)

hmp_change(device, reply) ==
    IF config.vnc /\ device = "vnc"
    THEN fire_and_report("hmp_change_vnc", reply)
    ELSE fire_and_report("hmp_change_medium", reply)

hmp_getfd(fdname, reply) == fire_and_report("qmp_getfd", reply)

hmp_closefd(fdname, reply) == fire_and_report("qmp_closefd", reply)

RECURSIVE iothread_entries(_)
iothread_entries(list) ==
    IF list = <<>> THEN <<>>
    ELSE LET value == Head(list)
         IN  << <<value.id, ":\n">>,
                <<"  thread_id=", ToString(value.thread_id), "\n">>,
                <<"  poll-max-ns=", ToString(value.poll_max_ns), "\n">>,
                <<"  poll-grow=", ToString(value.poll_grow), "\n">>,
                <<"  poll-shrink=", ToString(value.poll_shrink), "\n">>,
                <<"  aio-max-batch=", ToString(value.aio_max_batch), "\n">> >>
             \o iothread_entries(Tail(list))

hmp_info_iothreads(reply) ==
    [out |-> iothread_entries(reply.tree),
     log |-> << <<"call", "qmp_query_iothreads">> >>
             \o (IF reply.tree # <<>>
                 THEN << <<"alloc", "IOThreadInfoList">>,
                         <<"read", "IOThreadInfoList">>,
                         <<"free", "IOThreadInfoList">> >>
                 ELSE <<>>)]

-----------------------------------------------------------------------------
(* Virtio record renderer.                                                 *)

\* The loop shared by the list dumpers: "\t<value>" per element, ",\n"
\* between elements.
\* A variant of the list loop that puts the separator after every element.
RECURSIVE dump_strList_trailing(_)
dump_strList_trailing(list) ==
    IF list = <<>> THEN <<>>
    ELSE << <<"\t", Head(list)>>, <<",\n">> >> \o dump_strList_trailing(Tail(list))

RECURSIVE dump_strList(_)
dump_strList(list) ==
    IF list = <<>> THEN <<>>
    ELSE << <<"\t", Head(list)>> >>
         \o (IF Tail(list) # <<>> THEN << <<",\n">> >> ELSE <<>>)
         \o dump_strList(Tail(list))

hmp_virtio_dump_protocols(pcol) ==
    dump_strList(pcol.protocols) \o << <<"\n">> >>
    \o (IF pcol.has_unknown_protocols
        THEN << <<"  unknown-protocols(0x", Hex(pcol.unknown_protocols, 16), ")\n">> >>
        ELSE <<>>)

hmp_virtio_dump_status(status) ==
    dump_strList(status.statuses) \o << <<"\n">> >>
    \o (IF status.has_unknown_statuses
        THEN << <<"  unknown-statuses(0x", Hex(status.unknown_statuses, 16), ")\n">> >>
        ELSE <<>>)

hmp_virtio_dump_features(features) ==
    dump_strList(features.transports) \o << <<"\n">> >>
    \o (IF features.dev_features # <<>>
        THEN dump_strList(features.dev_features) \o << <<"\n">> >>
        ELSE <<>>)
    \o (IF features.has_unknown_dev_features
        THEN << <<"  unknown-features(0x", Hex(features.unknown_dev_features, 16),
                  ")\n">> >>
        ELSE <<>>)

RECURSIVE virtio_info_entries(_)
virtio_info_entries(list) ==
    IF list = <<>> THEN <<>>
    ELSE << <<Head(list).path, " [", Head(list).name, "]\n">> >>
         \o virtio_info_entries(Tail(list))

\* A variant of info virtio that returns without releasing the list.
hmp_virtio_query_leaky(reply) ==
    IF reply.err # NoErr
    THEN [out |-> hmp_handle_error(reply.err).out,
          log |-> Called("qmp_x_query_virtio", reply, "VirtioInfoList")
                  \o hmp_handle_error(reply.err).log]
    ELSE IF reply.tree = <<>>
    THEN [out |-> << <<"No VirtIO devices\n">> >>,
          log |-> Called("qmp_x_query_virtio", reply, "VirtioInfoList")]
    ELSE [out |-> virtio_info_entries(reply.tree),
          log |-> Called("qmp_x_query_virtio", reply, "VirtioInfoList")
                  \o Read(TRUE, "VirtioInfoList")]

hmp_virtio_query(reply) ==
    IF reply.err # NoErr
    THEN [out |-> hmp_handle_error(reply.err).out,
          log |-> Called("qmp_x_query_virtio", reply, "VirtioInfoList")
                  \o hmp_handle_error(reply.err).log]
    ELSE IF reply.tree = <<>>
    THEN [out |-> << <<"No VirtIO devices\n">> >>,
          log |-> Called("qmp_x_query_virtio", reply, "VirtioInfoList")]
    ELSE [out |-> virtio_info_entries(reply.tree),
          log |-> Called("qmp_x_query_virtio", reply, "VirtioInfoList")
                  \o Read(TRUE, "VirtioInfoList")
                  \o Release(TRUE, "VirtioInfoList")]

\* Template B for the virtio queries of one record: on error relay and
\* return; otherwise render and release.
virtio_render(fn, tree, reply, text) ==
    IF reply.err # NoErr
    THEN [out |-> hmp_handle_error(reply.err).out,
          log |-> Called(fn, reply, tree) \o hmp_handle_error(reply.err).log]
    ELSE [out |-> text,
          log |-> Called(fn, reply, tree) \o Read(TRUE, tree) \o Release(TRUE, tree)]

virtio_status_text(path, s) ==
    << <<path, ":\n">>,
       <<"  device_name:             ", s.name, " ",
         IF s.vhost_dev # <<>> THEN "(vhost)" ELSE "", "\n">>,
       <<"  device_id:               ", ToString(s.device_id), "\n">>,
       <<"  vhost_started:           ", Bool(s.vhost_started), "\n">>,
       <<"  bus_name:                ", s.bus_name, "\n">>,
       <<"  broken:                  ", Bool(s.broken), "\n">>,
       <<"  disabled:                ", Bool(s.disabled), "\n">>,
       <<"  disable_legacy_check:    ", Bool(s.disable_legacy_check), "\n">>,
       <<"  started:                 ", Bool(s.started), "\n">>,
       <<"  use_started:             ", Bool(s.use_started), "\n">>,
       <<"  start_on_kick:           ", Bool(s.start_on_kick), "\n">>,
       <<"  use_guest_notifier_mask: ", Bool(s.use_guest_notifier_mask), "\n">>,
       <<"  vm_running:              ", Bool(s.vm_running), "\n">>,
       <<"  num_vqs:                 ", ToString(s.num_vqs), "\n">>,
       <<"  queue_sel:               ", ToString(s.queue_sel), "\n">>,
       <<"  isr:                     ", ToString(s.isr), "\n">>,
       <<"  endianness:              ", s.device_endian, "\n">>,
       <<"  status:\n">> >>
    \o hmp_virtio_dump_status(s.status)
    \o << <<"  Guest features:\n">> >> \o hmp_virtio_dump_features(s.guest_features)
    \o << <<"  Host features:\n">> >> \o hmp_virtio_dump_features(s.host_features)
    \o << <<"  Backend features:\n">> >>
    \o hmp_virtio_dump_features(s.backend_features)
    \o (IF s.vhost_dev # <<>>
        THEN LET v == s.vhost_dev[1]
             IN  << <<"  VHost:\n">>,
                    <<"    nvqs:           ", ToString(v.nvqs), "\n">>,
                    <<"    vq_index:       ", ToString(v.vq_index), "\n">>,
                    <<"    max_queues:     ", ToString(v.max_queues), "\n">>,
                    <<"    n_mem_sections: ", ToString(v.n_mem_sections), "\n">>,
                    <<"    n_tmp_sections: ", ToString(v.n_tmp_sections), "\n">>,
                    <<"    backend_cap:    ", ToString(v.backend_cap), "\n">>,
                    <<"    log_enabled:    ", Bool(v.log_enabled), "\n">>,
                    <<"    log_size:       ", ToString(v.log_size), "\n">>,
                    <<"    Features:\n">> >>
                 \o hmp_virtio_dump_features(v.features)
                 \o << <<"    Acked features:\n">> >>
                 \o hmp_virtio_dump_features(v.acked_features)
                 \o << <<"    Backend features:\n">> >>
                 \o hmp_virtio_dump_features(v.backend_features)
                 \o << <<"    Protocol features:\n">> >>
                 \o hmp_virtio_dump_protocols(v.protocol_features)
        ELSE <<>>)

hmp_virtio_status(path, reply) ==
    virtio_render("qmp_x_query_virtio_status", "VirtioStatus", reply,
                  IF reply.tree = <<>> THEN <<>>
                  ELSE virtio_status_text(path, reply.tree[1]))

vhost_queue_status_text(path, s) ==
    << <<path, ":\n">>,
       <<"  device_name:          ", s.name, " (vhost)\n">>,
       <<"  kick:                 ", ToString(s.kick), "\n">>,
       <<"  call:                 ", ToString(s.call), "\n">>,
       <<"  VRing:\n">>,
       <<"    num:         ", ToString(s.num), "\n">>,
       <<"    desc:        0x", Hex(s.desc, 16), "\n">>,
       <<"    desc_phys:   0x", Hex(s.desc_phys, 16), "\n">>,
       <<"    desc_size:   ", ToString(s.desc_size), "\n">>,
       <<"    avail:       0x", Hex(s.avail, 16), "\n">>,
       <<"    avail_phys:  0x", Hex(s.avail_phys, 16), "\n">>,
       <<"    avail_size:  ", ToString(s.avail_size), "\n">>,
       <<"    used:        0x", Hex(s.used, 16), "\n">>,
       <<"    used_phys:   0x", Hex(s.used_phys, 16), "\n">>,
       <<"    used_size:   ", ToString(s.used_size), "\n">> >>

hmp_vhost_queue_status(path, queue, reply) ==
    virtio_render("qmp_x_query_virtio_vhost_queue_status", "VirtVhostQueueStatus",
                  reply,
                  IF reply.tree = <<>> THEN <<>>
                  ELSE vhost_queue_status_text(path, reply.tree[1]))

virtio_queue_status_text(path, s) ==
    << <<path, ":\n">>,
       <<"  device_name:          ", s.name, "\n">>,
       <<"  queue_index:          ", ToString(s.queue_index), "\n">>,
       <<"  inuse:                ", ToString(s.inuse), "\n">>,
       <<"  used_idx:             ", ToString(s.used_idx), "\n">>,
       <<"  signalled_used:       ", ToString(s.signalled_used), "\n">>,
       <<"  signalled_used_valid: ", Bool(s.signalled_used_valid), "\n">> >>
    \o (IF s.has_last_avail_idx
        THEN << <<"  last_avail_idx:       ", ToString(s.last_avail_idx), "\n">> >>
        ELSE <<>>)
    \o (IF s.has_shadow_avail_idx
        THEN << <<"  shadow_avail_idx:     ", ToString(s.shadow_avail_idx), "\n">> >>
        ELSE <<>>)
    \o << <<"  VRing:\n">>,
          <<"    num:          ", ToString(s.vring_num), "\n">>,
          <<"    num_default:  ", ToString(s.vring_num_default), "\n">>,
          <<"    align:        ", ToString(s.vring_align), "\n">>,
          <<"    desc:         0x", Hex(s.vring_desc, 16), "\n">>,
          <<"    avail:        0x", Hex(s.vring_avail, 16), "\n">>,
          <<"    used:         0x", Hex(s.vring_used, 16), "\n">> >>

hmp_virtio_queue_status(path, queue, reply) ==
    virtio_render("qmp_x_query_virtio_queue_status", "VirtQueueStatus", reply,
                  IF reply.tree = <<>> THEN <<>>
                  ELSE virtio_queue_status_text(path, reply.tree[1]))

RECURSIVE desc_flags(_)
desc_flags(flag) ==
    IF flag = <<>> THEN <<>>
    ELSE << <<Head(flag)>> >>
         \o (IF Tail(flag) # <<>> THEN << <<", ">> >> ELSE <<>>)
         \o desc_flags(Tail(flag))

RECURSIVE desc_entries(_)
desc_entries(list) ==
    IF list = <<>> THEN <<>>
    ELSE << <<"        addr 0x", Hex(Head(list).addr, 1), " len ",
              ToString(Head(list).len)>> >>
         \o (IF Head(list).flags # <<>>
             THEN << <<" (">> >> \o desc_flags(Head(list).flags) \o << <<")">> >>
             ELSE <<>>)
         \o (IF Tail(list) # <<>> THEN << <<",\n">> >> ELSE <<>>)
         \o desc_entries(Tail(list))

virtio_queue_element_text(path, e) ==
    << <<path, ":\n">>,
       <<"  device_name: ", e.name, "\n">>,
       <<"  index:   ", ToString(e.index), "\n">>,
       <<"  desc:\n">>,
       <<"    descs:\n">> >>
    \o desc_entries(e.descs)
    \o << <<"\n">>,
          <<"  avail:\n">>,
          <<"    flags: ", ToString(e.avail.flags), "\n">>,
          <<"    idx:   ", ToString(e.avail.idx), "\n">>,
          <<"    ring:  ", ToString(e.avail.ring), "\n">>,
          <<"  used:\n">>,
          <<"    flags: ", ToString(e.used.flags), "\n">>,
          <<"    idx:   ", ToString(e.used.idx), "\n">> >>

\* Lines 795 and 799-800: the index handed to the query; index_arg is the
\* optional argument of the command line.
queue_element_index(index_arg) ==
    LET index == IF index_arg.has THEN index_arg.val ELSE -1
    IN  [has_index |-> index # -1, index |-> index]

hmp_virtio_queue_element(path, queue, index_arg, reply) ==
    [query |-> queue_element_index(index_arg)]
    @@ virtio_render("qmp_x_query_virtio_queue_element", "VirtioQueueElement",
                     reply,
                     IF reply.tree = <<>> THEN <<>>
                     ELSE virtio_queue_element_text(path, reply.tree[1]))

-----------------------------------------------------------------------------
(* The replies the session's commands are given.                           *)

Ptr(r) == Reply(NoErr, <<r>>)
CmdReplies == {OkReply} \cup ErrReplies

NameReplies == {Ptr([name |-> n]) : n \in {NullStr, "guest"}}
VersionReplies == {Ptr([major |-> 8, minor |-> 2, micro |-> 1, package |-> "-custom"])}
RunStates == {"running", "paused", "guest-panicked"}
StatusReplies == {Ptr(i) : i \in [running : BOOLEAN, singlestep : BOOLEAN,
                                  status : RunStates]}

PicObjects ==
    { <<>>,
      << [type |-> "cpu", intc |-> FALSE, print_info |-> FALSE],
         [type |-> "apic", intc |-> TRUE, print_info |-> TRUE],
         [type |-> "ioapic", intc |-> TRUE, print_info |-> FALSE] >> }

TpmPass == [id |-> "tpm0", model |-> "tpm-tis", type |-> "passthrough",
            path |-> "/dev/tpm0", cancel_path |-> NullStr, chardev |-> NullStr]
TpmEmu == [id |-> "tpm1", model |-> "tpm-crb", type |-> "emulator",
           path |-> NullStr, cancel_path |-> NullStr, chardev |-> "chr0"]
TpmReplies == ErrReplies \cup {Reply(NoErr, <<>>), Reply(NoErr, <<TpmPass>>),
                               Reply(NoErr, <<TpmEmu, TpmPass>>)}

IOThread(id) == [id |-> id, thread_id |-> 7, poll_max_ns |-> 32768,
                 poll_grow |-> 0, poll_shrink |-> 0, aio_max_batch |-> 0]
IOThreadReplies == {Reply(NoErr, <<>>), Reply(NoErr, <<IOThread("io0")>>),
                    Reply(NoErr, <<IOThread("io0"), IOThread("io1")>>)}

VirtioDev(n) == [path |-> "/machine/peripheral/" \o n \o "/virtio-backend",
                 name |-> n]
VirtioInfoReplies ==
    ErrReplies \cup {Reply(NoErr, <<>>), Reply(NoErr, <<VirtioDev("vio")>>),
                     Reply(NoErr, <<VirtioDev("vio"), VirtioDev("net")>>)}

Features(transports, dev, unknown) ==
    [transports |-> transports, dev_features |-> dev,
     has_unknown_dev_features |-> unknown, unknown_dev_features |-> 4096]

VhostDev ==
    [nvqs |-> 2, vq_index |-> 0, max_queues |-> 1, n_mem_sections |-> 4,
     n_tmp_sections |-> 4, backend_cap |-> 2, log_enabled |-> FALSE,
     log_size |-> 0,
     features |-> Features(<<"VIRTIO_F_VERSION_1">>, <<>>, FALSE),
     acked_features |-> Features(<<>>, <<>>, FALSE),
     backend_features |-> Features(<<>>, <<"VHOST_F_LOG_ALL">>, TRUE),
     protocol_features |-> [protocols |-> <<"MQ", "REPLY_ACK">>,
                            has_unknown_protocols |-> TRUE,
                            unknown_protocols |-> 65536]]

VirtioStatusRec(vhost) ==
    [name |-> "virtio-net", device_id |-> 1, vhost_started |-> vhost # <<>>,
     bus_name |-> "", broken |-> FALSE, disabled |-> FALSE,
     disable_legacy_check |-> FALSE, started |-> TRUE, use_started |-> TRUE,
     start_on_kick |-> FALSE, use_guest_notifier_mask |-> TRUE,
     vm_running |-> TRUE, num_vqs |-> 3, queue_sel |-> 2, isr |-> 1,
     device_endian |-> "little",
     status |-> [statuses |-> <<"DRIVER_OK", "FEATURES_OK", "DRIVER">>,
                 has_unknown_statuses |-> vhost = <<>>, unknown_statuses |-> 128],
     guest_features |-> Features(<<"VIRTIO_F_VERSION_1", "VIRTIO_F_ANY_LAYOUT">>,
                                 <<"VIRTIO_NET_F_MAC">>, FALSE),
     host_features |-> Features(<<"VIRTIO_F_VERSION_1">>, <<>>, TRUE),
     backend_features |-> Features(<<>>, <<>>, FALSE),
     vhost_dev |-> vhost]
VirtioStatusReplies ==
    ErrReplies \cup {Ptr(VirtioStatusRec(<<>>)), Ptr(VirtioStatusRec(<<VhostDev>>))}

VhostQueueStatusRec ==
    [name |-> "virtio-net", kick |-> 10, call |-> 11, num |-> 256,
     desc |-> 4096, desc_phys |-> 8192, desc_size |-> 4096, avail |-> 12288,
     avail_phys |-> 16384, avail_size |-> 518, used |-> 20480,
     used_phys |-> 24576, used_size |-> 2054]
VhostQueueStatusReplies == ErrReplies \cup {Ptr(VhostQueueStatusRec)}

VirtQueueStatusRec(last, shadow) ==
    [name |-> "virtio-net", queue_index |-> 0, inuse |-> 0, used_idx |-> 5,
     signalled_used |-> 5, signalled_used_valid |-> TRUE,
     has_last_avail_idx |-> last, last_avail_idx |-> 5,
     has_shadow_avail_idx |-> shadow, shadow_avail_idx |-> 5,
     vring_num |-> 256, vring_num_default |-> 256, vring_align |-> 4096,
     vring_desc |-> 4096, vring_avail |-> 8192, vring_used |-> 12288]
VirtQueueStatusReplies ==
    ErrReplies \cup {Ptr(VirtQueueStatusRec(l, h)) : l, h \in BOOLEAN}

Desc(addr, flags) == [addr |-> addr, len |-> 64, flags |-> flags]
QueueElementRec(descs) ==
    [name |-> "virtio-net", index |-> 1, descs |-> descs,
     avail |-> [flags |-> 0, idx |-> 2, ring |-> 1],
     used |-> [flags |-> 0, idx |-> 1]]
QueueElementReplies ==
    ErrReplies \cup {Ptr(QueueElementRec(<<>>)),
                     Ptr(QueueElementRec(<<Desc(4096, <<"write", "next">>),
                                           Desc(8192, <<>>)>>))}

NoInt == [has |-> FALSE, val |-> 0]
SomeInt(n) == [has |-> TRUE, val |-> n]
IndexArgs == {NoInt} \cup {SomeInt(n) : n \in {-1, 0, 1}}

\* Argument values stay within the range of int.
CpuIndexArgs == -1 .. MaxCpus
SyncProfileOps == {NullStr, "on", "off", "reset", "On", "toggle"}
DeviceArgs == {"vnc", "ide0-cd0"}
FdNames == {"fd0"}
VirtioPaths == {"/machine/peripheral/vio/virtio-backend"}

\* The replies info stats is given in a session.
SessionSchemaReplies == {Reply("e1", <<>>), Reply(NoErr, Schema0)}
SessionStatsReplies ==
    {Reply("e2", <<>>), Reply(NoErr, <<>>), Reply(NoErr, <<ResultGood>>),
     Reply(NoErr, <<ResultMissing, ResultGood>>), Reply(NoErr, <<ResultOverrun>>)}

-----------------------------------------------------------------------------
(* The session: one action per command.                                    *)

Init ==
    /\ config \in [tpm : BOOLEAN, vnc : BOOLEAN]
    /\ ncpus \in 0 .. MaxCpus
    /\ mon_cpu = 0
    /\ qsp_enabled = FALSE
    /\ qsp_entries = 0
    /\ suspended = FALSE
    /\ crashed = FALSE
    /\ pc = "idle"
    /\ cmd = [name |-> "none"]
    /\ out = <<>>
    /\ log = <<>>
    /\ ret = [status |-> "none"]

\* A command is dispatched only while the session takes commands.
Ready == pc = "idle" /\ ~suspended /\ ~crashed

\* The shim ran with result r and returned.
Emit(r) ==
    /\ ret' = r
    /\ out' = ret'.out
    /\ log' = ret'.log
    /\ pc' = "done"

InfoName ==
    /\ Ready
    /\ \E reply \in NameReplies :
         /\ cmd' = [name |-> "info name", reply |-> reply]
         /\ Emit(hmp_info_name(reply))
    /\ UNCHANGED <<session, crashed>>

InfoVersion ==
    /\ Ready
    /\ \E reply \in VersionReplies :
         /\ cmd' = [name |-> "info version", reply |-> reply]
         /\ Emit(hmp_info_version(reply))
    /\ UNCHANGED <<session, crashed>>

InfoStatus ==
    /\ Ready
    /\ \E reply \in StatusReplies :
         /\ cmd' = [name |-> "info status", reply |-> reply]
         /\ Emit(hmp_info_status(reply))
    /\ UNCHANGED <<session, crashed>>

InfoPic ==
    /\ Ready
    /\ \E objects \in PicObjects :
         /\ cmd' = [name |-> "info pic", objects |-> objects]
         /\ Emit(hmp_info_pic(objects))
    /\ UNCHANGED <<session, crashed>>

InfoTpm ==
    /\ Ready
    /\ \E reply \in IF config.tpm THEN TpmReplies ELSE {Unused} :
         /\ cmd' = [name |-> "info tpm", reply |-> reply]
         /\ Emit(hmp_info_tpm(reply))
    /\ UNCHANGED <<session, crashed>>

InfoIothreads ==
    /\ Ready
    /\ \E reply \in IOThreadReplies :
         /\ cmd' = [name |-> "info iothreads", reply |-> reply]
         /\ Emit(hmp_info_iothreads(reply))
    /\ UNCHANGED <<session, crashed>>

InfoStatsCmd ==
    /\ Ready
    /\ InfoStats(SessionSchemaReplies, SessionStatsReplies)
    /\ pc' = IF crashed' THEN "killed" ELSE "done"
    /\ UNCHANGED session

Quit ==
    /\ Ready
    /\ cmd' = [name |-> "quit"]
    /\ Emit(hmp_quit)
    /\ suspended' = ret'.suspended
    /\ UNCHANGED <<config, ncpus, mon_cpu, qsp_enabled, qsp_entries, crashed>>

Stop ==
    /\ Ready
    /\ cmd' = [name |-> "stop"]
    /\ Emit(hmp_stop)
    /\ UNCHANGED <<session, crashed>>

SyncProfile ==
    /\ Ready
    /\ \E op \in SyncProfileOps :
         /\ cmd' = [name |-> "sync-profile", op |-> op]
         /\ Emit(hmp_sync_profile(op))
    /\ qsp_enabled' = ret'.qsp.enabled
    /\ qsp_entries' = ret'.qsp.entries
    /\ UNCHANGED <<config, ncpus, mon_cpu, suspended, crashed>>

ExitPreconfig ==
    /\ Ready
    /\ \E reply \in CmdReplies :
         /\ cmd' = [name |-> "exit-preconfig", reply |-> reply]
         /\ Emit(hmp_exit_preconfig(reply))
    /\ UNCHANGED <<session, crashed>>

Cpu ==
    /\ Ready
    /\ \E index \in CpuIndexArgs :
         /\ cmd' = [name |-> "cpu", index |-> index]
         /\ Emit(hmp_cpu(index))
    /\ mon_cpu' = ret'.mon_cpu
    /\ UNCHANGED <<config, ncpus, qsp_enabled, qsp_entries, suspended, crashed>>

Cont ==
    /\ Ready
    /\ \E reply \in CmdReplies :
         /\ cmd' = [name |-> "cont", reply |-> reply]
         /\ Emit(hmp_cont(reply))
    /\ UNCHANGED <<session, crashed>>

Change ==
    /\ Ready
    /\ \E device \in DeviceArgs, reply \in CmdReplies :
         /\ cmd' = [name |-> "change", device |-> device, reply |-> reply]
         /\ Emit(hmp_change(device, reply))
    /\ UNCHANGED <<session, crashed>>

Getfd ==
    /\ Ready
    /\ \E fdname \in FdNames, reply \in CmdReplies :
         /\ cmd' = [name |-> "getfd", fdname |-> fdname, reply |-> reply]
         /\ Emit(hmp_getfd(fdname, reply))
    /\ UNCHANGED <<session, crashed>>

Closefd ==
    /\ Ready
    /\ \E fdname \in FdNames, reply \in CmdReplies :
         /\ cmd' = [name |-> "closefd", fdname |-> fdname, reply |-> reply]
         /\ Emit(hmp_closefd(fdname, reply))
    /\ UNCHANGED <<session, crashed>>

InfoVirtio ==
    /\ Ready
    /\ \E reply \in VirtioInfoReplies :
         /\ cmd' = [name |-> "info virtio", reply |-> reply]
         /\ Emit(hmp_virtio_query(reply))
    /\ UNCHANGED <<session, crashed>>

VirtioStatus ==
    /\ Ready
    /\ \E path \in VirtioPaths, reply \in VirtioStatusReplies :
         /\ cmd' = [name |-> "virtio status", path |-> path, reply |-> reply]
         /\ Emit(hmp_virtio_status(path, reply))
    /\ UNCHANGED <<session, crashed>>

VhostQueueStatus ==
    /\ Ready
    /\ \E path \in VirtioPaths, reply \in VhostQueueStatusReplies :
         /\ cmd' = [name |-> "vhost queue-status", path |-> path, queue |-> 0,
                    reply |-> reply]
         /\ Emit(hmp_vhost_queue_status(path, 0, reply))
    /\ UNCHANGED <<session, crashed>>

VirtioQueueStatus ==
    /\ Ready
    /\ \E path \in VirtioPaths, reply \in VirtQueueStatusReplies :
         /\ cmd' = [name |-> "virtio queue-status", path |-> path, queue |-> 0,
                    reply |-> reply]
         /\ Emit(hmp_virtio_queue_status(path, 0, reply))
    /\ UNCHANGED <<session, crashed>>

VirtioQueueElement ==
    /\ Ready
    /\ \E path \in VirtioPaths, index \in IndexArgs, reply \in QueueElementReplies :
         /\ cmd' = [name |-> "virtio queue-element", path |-> path, queue |-> 0,
                    index |-> index, reply |-> reply]
         /\ Emit(hmp_virtio_queue_element(path, 0, index, reply))
    /\ UNCHANGED <<session, crashed>>

\* The shim returned to the monitor, which reads the next command line
\* unless the session is suspended.
ReadLine ==
    /\ pc = "done"
    /\ ~suspended
    /\ ~crashed
    /\ pc' = "idle"
    /\ cmd' = [name |-> "none"]
    /\ out' = <<>>
    /\ log' = <<>>
    /\ ret' = [status |-> "none"]
    /\ UNCHANGED <<session, crashed>>

\* The profiled locks of the process: while the profiler is enabled its
\* counters grow.
QspRecord ==
    /\ ~crashed
    /\ qsp_enabled
    /\ qsp_entries < MaxEntries
    /\ qsp_entries' = qsp_entries + 1
    /\ UNCHANGED <<config, ncpus, mon_cpu, qsp_enabled, suspended, crashed, pc,
                   cmd, out, log, ret>>

Next ==
    \/ InfoName
    \/ InfoVersion
    \/ InfoStatus
    \/ InfoPic
    \/ InfoTpm
    \/ InfoIothreads
    \/ InfoStatsCmd
    \/ Quit
    \/ Stop
    \/ SyncProfile
    \/ ExitPreconfig
    \/ Cpu
    \/ Cont
    \/ Change
    \/ Getfd
    \/ Closefd
    \/ InfoVirtio
    \/ VirtioStatus
    \/ VhostQueueStatus
    \/ VirtioQueueStatus
    \/ VirtioQueueElement
    \/ ReadLine
    \/ QspRecord

Spec == Init /\ [][Next]_vars

-----------------------------------------------------------------------------
(* Specification of the filter builder alone.                              *)

NameChars == {"a", ",", "*"}
NamesArgs == {NoChars} \cup {SomeChars(s) : s \in SeqsUpTo(NameChars, MaxNamesLen)}

InitFilter ==
    /\ config = [tpm |-> TRUE, vnc |-> TRUE]
    /\ ncpus \in 0 .. MaxCpus
    /\ mon_cpu = 0
    /\ qsp_enabled = FALSE
    /\ qsp_entries = 0
    /\ suspended = FALSE
    /\ crashed = FALSE
    /\ pc = "call"
    /\ cmd \in [name : {"stats_filter"}, target : Targets, names : NamesArgs,
                cpu_index : -1 .. MaxCpus,
                provider : 0 .. STATS_PROVIDER__MAX]
    /\ out = <<>>
    /\ log = <<>>
    /\ ret = [status |-> "none"]

FilterCall ==
    /\ pc = "call"
    /\ cmd.name = "stats_filter"
    /\ ret' = [status |-> "returned",
               filter |-> stats_filter(cmd.target, cmd.names, cmd.cpu_index,
                                       cmd.provider)]
    /\ pc' = "return"
    /\ UNCHANGED <<session, crashed, cmd, out, log>>

NextFilter == FilterCall

SpecFilter == InitFilter /\ [][NextFilter]_vars

-----------------------------------------------------------------------------
(* Specification of the list dumpers alone: a record is drawn in the       *)
(* initial state, one step runs its dumper.                                *)

BitNames == {"ACKNOWLEDGE", "DRIVER"}
StrLists == SeqsUpTo(BitNames, MaxListLen)

DumpArgs ==
    [name : {"hmp_virtio_dump_status"},
     record : [statuses : StrLists, has_unknown_statuses : BOOLEAN,
               unknown_statuses : {128}]]
    \cup [name : {"hmp_virtio_dump_protocols"},
          record : [protocols : StrLists, has_unknown_protocols : BOOLEAN,
                    unknown_protocols : {65536}]]
    \cup [name : {"hmp_virtio_dump_features"},
          record : [transports : StrLists, dev_features : StrLists,
                    has_unknown_dev_features : BOOLEAN,
                    unknown_dev_features : {4096}]]

InitDump ==
    /\ IdleSession
    /\ pc = "call"
    /\ cmd \in DumpArgs
    /\ out = <<>>
    /\ log = <<>>
    /\ ret = [status |-> "none"]

DumpCall ==
    /\ pc = "call"
    /\ cmd.name \in {"hmp_virtio_dump_status", "hmp_virtio_dump_protocols",
                     "hmp_virtio_dump_features"}
    /\ out' = IF cmd.name = "hmp_virtio_dump_status"
              THEN hmp_virtio_dump_status(cmd.record)
              ELSE IF cmd.name = "hmp_virtio_dump_protocols"
              THEN hmp_virtio_dump_protocols(cmd.record)
              ELSE hmp_virtio_dump_features(cmd.record)
    /\ ret' = [status |-> "returned"]
    /\ pc' = "return"
    /\ UNCHANGED <<session, crashed, cmd, log>>

NextDump == DumpCall

SpecDump == InitDump /\ [][NextDump]_vars

-----------------------------------------------------------------------------
(* Specification of the schema value printer alone.                        *)

SchemaValueArgs ==
    [name : {"a"}, type : {"cumulative", "linear-histogram"},
     has_unit : BOOLEAN, unit : {"seconds", "bytes", "cycles"},
     base : {2, 10, 16}, exponent : (-MaxExponent) .. MaxExponent,
     has_bucket_size : BOOLEAN, bucket_size : {8}]

InitSchemaValue ==
    /\ IdleSession
    /\ pc = "call"
    /\ cmd \in [name : {"print_stats_schema_value"}, value : SchemaValueArgs]
    /\ out = <<>>
    /\ log = <<>>
    /\ ret = [status |-> "none"]

SchemaValueCall ==
    /\ pc = "call"
    /\ cmd.name = "print_stats_schema_value"
    /\ out' = print_stats_schema_value(cmd.value)
    /\ ret' = [status |-> "returned"]
    /\ pc' = "return"
    /\ UNCHANGED <<session, crashed, cmd, log>>

NextSchemaValue == SchemaValueCall

SpecSchemaValue == InitSchemaValue /\ [][NextSchemaValue]_vars

-----------------------------------------------------------------------------
(* Properties of the renderer.                                             *)

RenderDone == pc = "return" /\ cmd.name = "print_stats_results"

\* The value list of the first schema entry for (provider, target), stated
\* without the search loop; <<>> when there is none.
FirstSchemaFor(schema, provider, target) ==
    LET hits == {i \in DOMAIN schema : /\ schema[i].provider = provider
                                       /\ schema[i].target = target}
    IN  IF hits = {} THEN <<>>
        ELSE schema[CHOOSE i \in hits : \A j \in hits : i <= j].stats

RenderSvl == FirstSchemaFor(cmd.schema, cmd.result.provider, cmd.target)

\* s is a subsequence of t: its names occur in t in the same relative order.
IsSubsequence(s, t) ==
    \E f \in [DOMAIN s -> DOMAIN t] :
        /\ \A i \in DOMAIN s : t[f[i]].name = s[i].name
        /\ \A i, j \in DOMAIN s : i < j => f[i] < f[j]

IsEntryHead(c) == c[1] = "    "
IsEntryDiag(c) == c[1] = "failed to find schema entry for "
IsListDiag(c) == c[1] = "failed to find schema list for "
IsDiag(c) == IsEntryDiag(c) \/ IsListDiag(c)

\* The schema cursor right after the last rendered pair.
CursorAfter(rendered) ==
    IF rendered = <<>> THEN 1 ELSE rendered[Len(rendered)][2] + 1

\* C3: when the stats names are a subsequence of the schema value list found
\* for (result.provider, target), every stat is rendered exactly once, in
\* stats order, with a schema entry of its own name; no diagnostic is
\* printed; the schema cursor never moves backward and is never dereferenced
\* past the end of the list.
C3_SubsequenceRendered ==
    (RenderDone /\ RenderSvl # <<>> /\ IsSubsequence(cmd.result.stats, RenderSvl))
    => /\ ret.status = "done"
       /\ ~crashed
       /\ Len(ret.rendered) = Len(cmd.result.stats)
       /\ \A i \in DOMAIN ret.rendered :
            /\ ret.rendered[i][1] = i
            /\ ret.rendered[i][2] \in DOMAIN RenderSvl
            /\ RenderSvl[ret.rendered[i][2]].name = cmd.result.stats[i].name
       /\ LET heads == SelectSeq(out, IsEntryHead)
          IN  /\ Len(heads) = Len(cmd.result.stats)
              /\ \A i \in DOMAIN heads : heads[i][2] = cmd.result.stats[i].name
       /\ Count(out, IsDiag) = 0
       /\ \A i \in 1 .. (Len(ret.cursor) - 1) : ret.cursor[i] <= ret.cursor[i + 1]
       /\ \A i \in DOMAIN ret.cursor : ret.cursor[i] \in DOMAIN RenderSvl

\* C3 witness: a stats list of two that skips over a schema entry has been
\* rendered.
C3_Witness ==
    /\ RenderDone
    /\ Len(RenderSvl) = 3
    /\ Len(cmd.result.stats) = 2
    /\ IsSubsequence(cmd.result.stats, RenderSvl)
    /\ ret.rendered = <<<<1, 1>>, <<2, 3>>>>

\* C4: with a non-empty schema value list and any stats list, the renderer
\* stops exactly at the first stat that has no schema entry of its name at
\* or after the schema cursor, prints exactly one "failed to find schema
\* entry for <name>" line for it, and never dereferences the schema cursor
\* past the end of the list.
C4_MissingEntryDiagnosed ==
    (RenderDone /\ RenderSvl # <<>>)
    => LET m == Len(ret.rendered)
           c == CursorAfter(ret.rendered)
           stats == cmd.result.stats
           missing == m < Len(stats)
                      /\ \A j \in c .. Len(RenderSvl) :
                            RenderSvl[j].name # stats[m + 1].name
       IN  /\ ret.status # "nullderef"
           /\ ~crashed
           /\ \A i \in DOMAIN ret.cursor : ret.cursor[i] \in DOMAIN RenderSvl
           /\ m < Len(stats) => missing
           /\ missing =>
                /\ ret.status = "aborted"
                /\ Count(out, IsEntryDiag) = 1
                /\ out[Len(out)] = <<"failed to find schema entry for ",
                                     stats[m + 1].name, "\n">>
           /\ ~missing => Count(out, IsEntryDiag) = 0

-----------------------------------------------------------------------------
(* Properties of the filter builder.                                       *)

FilterDone == pc = "return" /\ cmd.name = "stats_filter"

\* The fields joined with commas.
RECURSIVE JoinComma(_)
JoinComma(fields) ==
    IF Len(fields) = 1 THEN fields[1]
    ELSE fields[1] \o <<",">> \o JoinComma(Tail(fields))

\* fields is the comma-split of the characters s.
IsCommaSplit(fields, s) ==
    IF s = <<>> THEN fields = <<>>
    ELSE /\ fields # <<>>
         /\ \A i \in DOMAIN fields : \A k \in DOMAIN fields[i] : fields[i][k] # ","
         /\ JoinComma(fields) = s

\* C6: the filter has no request list exactly when names and provider are
\* both absent; otherwise it has one request per provider of the universe
\* (provider absent) or the one request of the given provider, none twice,
\* each without names iff names is absent or "*" and else with the
\* comma-split of names; the vcpu-list has one entry iff the target is VCPU.
C6_FilterShape ==
    FilterDone =>
      LET f == ret.filter
          wanted == IF cmd.provider = STATS_PROVIDER__MAX THEN Providers
                    ELSE {cmd.provider}
          plain == ~cmd.names.has \/ cmd.names.val = <<"*">>
      IN  /\ f.ok
          /\ f.target = cmd.target
          /\ (~cmd.names.has /\ cmd.provider = STATS_PROVIDER__MAX)
               => (~f.has_providers /\ f.providers = <<>>)
          /\ ~(~cmd.names.has /\ cmd.provider = STATS_PROVIDER__MAX)
               => /\ f.has_providers
                  /\ Len(f.providers) = Cardinality(wanted)
                  /\ {f.providers[i].provider : i \in DOMAIN f.providers} = wanted
                  /\ \A i \in DOMAIN f.providers :
                       /\ f.providers[i].has_names = ~plain
                       /\ plain => f.providers[i].names = <<>>
                       /\ ~plain => IsCommaSplit(f.providers[i].names, cmd.names.val)
          /\ (Len(f.vcpus) = 1) = (cmd.target = STATS_TARGET_VCPU)
          /\ Len(f.vcpus) <= 1
          /\ f.has_vcpus = (cmd.target = STATS_TARGET_VCPU)

\* C6 witness: a name list with an empty field and no provider gave one
\* request per provider, each with the split names.
C6_Witness ==
    /\ FilterDone
    /\ cmd.names = SomeChars(<<"a", ",", ",">>)
    /\ cmd.provider = STATS_PROVIDER__MAX
    /\ cmd.target = STATS_TARGET_VCPU
    /\ Len(ret.filter.providers) = STATS_PROVIDER__MAX
    /\ ret.filter.providers[1].names = <<<<"a">>, <<>>, <<>>>>

-----------------------------------------------------------------------------
(* Properties of the calls a shim makes.                                   *)

\* The shim of the last command returned to the monitor.
Returned == pc = "done"

\* The positions of log where a MAPI entry point (or a change handler) set
\* an error; qapi_enum_parse and error_setg set errors of the shim's own.
MapiErrors ==
    {i \in DOMAIN log : /\ log[i][1] = "error_set"
                        /\ log[i][2] \notin {"qapi_enum_parse", "error_setg"}}

Occurrences(s, e) == Cardinality({i \in DOMAIN s : s[i] = e})

\* C1: whenever a MAPI entry point called by a shim returned an error
\* descriptor, the shim has passed it to hmp_handle_error exactly once, the
\* operator has got exactly one line "Error: <description>", and the
\* descriptor has been freed exactly once when the shim returns.
C1_MapiErrorRelayedOnce ==
    Returned =>
      \A i \in MapiErrors :
        /\ Occurrences(log, <<"hmp_handle_error", log[i][3]>>) = 1
        /\ Occurrences(out, <<"Error: ", log[i][3], "\n">>) = 1
        /\ Occurrences(log, <<"error_free", log[i][3]>>) = 1

\* C2: when a shim returns, every record tree it obtained has been released
\* exactly once, every release is of a tree obtained before, and no tree is
\* read before it was obtained or after it was released.
C2_TreesReleasedOnce ==
    Returned =>
      /\ \A i \in DOMAIN log :
           log[i][1] = "alloc" =>
             /\ Occurrences(log, <<"alloc", log[i][2]>>) = 1
             /\ Occurrences(log, <<"free", log[i][2]>>) = 1
             /\ \E j \in DOMAIN log : j > i /\ log[j] = <<"free", log[i][2]>>
      /\ \A j \in DOMAIN log :
           log[j][1] = "free" =>
             \E i \in DOMAIN log : i < j /\ log[i] = <<"alloc", log[j][2]>>
      /\ \A k \in DOMAIN log :
           log[k][1] = "read" =>
             /\ \E i \in DOMAIN log : i < k /\ log[i] = <<"alloc", log[k][2]>>
             /\ \A j \in DOMAIN log : log[j] = <<"free", log[k][2]>> => j > k

\* C2 witness: info stats returned after the renderer left a result early;
\* schema, filter and results were obtained and released.
C2_Witness ==
    /\ Returned
    /\ cmd.name = "info stats"
    /\ \E i \in DOMAIN ret.renders : ret.renders[i] = "aborted"
    /\ Occurrences(log, <<"free", "schema">>) = 1
    /\ Occurrences(log, <<"free", "stats">>) = 1
    /\ Occurrences(log, <<"free", "filter">>) = 1

-----------------------------------------------------------------------------
(* Properties of info stats.                                               *)

StatsRan == pc # "idle" /\ cmd.name = "info stats"

\* C5: when the stats query succeeded, print_stats_results has been invoked
\* exactly once for each entry of the result list, in list order, however
\* the rendering of earlier entries ended.
C5_EveryResultProcessed ==
    (StatsRan /\ ret.queried /\ cmd.stats_reply.err = NoErr)
    => ret.calls = [i \in 1 .. Len(cmd.stats_reply.tree) |-> i]

\* C7: once target and provider parsed and the schema query succeeded,
\* stats_filter returns a filter, with one vcpu-list entry for target VCPU
\* whatever the CPU index, and the stats query is made with it; when the
\* session's CPU index names no vCPU the stats query is what fails, and its
\* error is the one line info stats prints.
C7_FilterNeverFails ==
    (StatsRan /\ ParsesOk(cmd.target, cmd.provider) /\ cmd.schema_reply.err = NoErr)
    => /\ ret.filter.ok
       /\ ret.queried
       /\ Occurrences(log, <<"call", "qmp_query_stats">>) = 1
       /\ cmd.target = "vcpu" => Len(ret.filter.vcpus) = 1
       /\ cmd.stats_reply.err # NoErr =>
            /\ out = << <<cmd.stats_reply.err, "\n">> >>
            /\ ret.renders = <<>>
       /\ (cmd.target = "vcpu" /\ mon_cpu \notin 0 .. (ncpus - 1)) =>
            /\ ret.filter.vcpus = <<object_get_canonical_path(NullCpu)>>
            /\ cmd.stats_reply.err # NoErr

\* C7 witness: info stats for target vcpu on a machine without CPUs built
\* its filter, and the error of the stats query was printed.
C7_Witness ==
    /\ StatsRan
    /\ cmd.target = "vcpu"
    /\ ncpus = 0
    /\ ret.filter.ok
    /\ Len(ret.filter.vcpus) = 1
    /\ ret.queried
    /\ out = << <<"e1", "\n">> >>

\* C8: a target or provider spelling that does not parse gives exactly the
\* one line "invalid stats target <value>" or "invalid stats provider
\* <value>" and nothing else: no schema query, no filter, no stats query, no
\* rendering; the parse error is freed.
C8_InvalidSpelling ==
    (StatsRan /\ ~ParsesOk(cmd.target, cmd.provider))
    => LET known(lookup, str) == \E i \in DOMAIN lookup : lookup[i] = str
           what == IF known(StatsTarget_lookup, cmd.target)
                   THEN "provider" ELSE "target"
           str == IF known(StatsTarget_lookup, cmd.target)
                  THEN cmd.provider ELSE cmd.target
       IN  /\ out = << <<"invalid stats ", what, " ", str, "\n">> >>
           /\ \A i \in DOMAIN log : log[i][1] \notin {"call", "alloc", "read", "free"}
           /\ ret.filter = NoFilter
           /\ ~ret.queried
           /\ ret.calls = <<>>
           /\ Cardinality({i \in DOMAIN log : log[i][1] = "error_set"}) = 1
           /\ Cardinality({i \in DOMAIN log : log[i][1] = "error_free"}) = 1
           /\ \A i, j \in DOMAIN log :
                (log[i][1] = "error_set" /\ log[j][1] = "error_free")
                => (i < j /\ log[j][2] = log[i][3])
           /\ Returned

\* C8 witness: a valid target with a misspelt provider was diagnosed.
C8_Witness ==
    /\ StatsRan
    /\ cmd.target = "vm"
    /\ cmd.provider = "kvmm"
    /\ out = << <<"invalid stats ", "provider", " ", "kvmm", "\n">> >>
    /\ Len(log) = 2

-----------------------------------------------------------------------------
(* Properties of the session.                                              *)

\* The step that runs the shim of command c.
Runs(c) == pc = "idle" /\ pc' # "idle" /\ cmd'.name = c

\* C9: in every step of a session, an info stats command that builds a
\* filter for target VCPU gives it the one path of the CPU the session has
\* selected at that time, and for target VM no vcpu-list; a cpu command
\* with the index of a CPU selects it, and one that fails prints "invalid
\* CPU index" and leaves the selection as it was.
C9_SessionCpu ==
    [][/\ (Runs("info stats") /\ ret'.filter.ok) =>
            IF cmd'.target = "vcpu"
            THEN /\ ret'.filter.has_vcpus
                 /\ ret'.filter.vcpus =
                      << <<"/machine/cpu",
                           ToString(IF mon_cpu \in 0 .. (ncpus - 1)
                                    THEN mon_cpu ELSE -1)>> >>
            ELSE /\ ~ret'.filter.has_vcpus
                 /\ ret'.filter.vcpus = <<>>
       /\ Runs("info stats") => mon_cpu' = mon_cpu
       /\ Runs("cpu") =>
            IF cmd'.index \in 0 .. (ncpus - 1)
            THEN mon_cpu' = cmd'.index /\ out' = <<>>
            ELSE mon_cpu' = mon_cpu /\ out' = << <<"invalid CPU index\n">> >>
      ]_vars

\* C9 witness: after a cpu command selected CPU 1, info stats for target
\* vcpu built its filter for CPU 1.
C9_Witness ==
    /\ StatsRan
    /\ cmd.target = "vcpu"
    /\ mon_cpu = 1
    /\ ret.filter.ok
    /\ ret.filter.vcpus = << <<"/machine/cpu", "1">> >>

\* C10: every sync-profile command has exactly one of five outcomes.  No
\* op: "sync-profile is on" or "sync-profile is off" by the current toggle,
\* toggle and counters unchanged.  "on": only enables.  "off": only
\* disables.  "reset": only resets the counters.  Any other op: toggle and
\* counters unchanged, one invalid-parameter error through the relay.
C10_SyncProfileOutcomes ==
    [][Runs("sync-profile") =>
         LET op == cmd'.op
             relayed == {i \in DOMAIN log' : log'[i][1] = "hmp_handle_error"}
             qsp_calls == SelectSeq(log', LAMBDA e :
                              e[1] \in {"qsp_is_enabled", "qsp_enable",
                                        "qsp_disable", "qsp_reset"})
             shown == /\ op = NullStr
                      /\ out' = << <<"sync-profile is ",
                                     IF qsp_enabled THEN "on" ELSE "off", "\n">> >>
                      /\ qsp_calls = << <<"qsp_is_enabled">> >>
                      /\ UNCHANGED <<qsp_enabled, qsp_entries>>
                      /\ relayed = {}
             on == /\ op = "on"
                   /\ out' = <<>>
                   /\ qsp_calls = << <<"qsp_enable">> >>
                   /\ qsp_enabled'
                   /\ qsp_entries' = qsp_entries
                   /\ relayed = {}
             off == /\ op = "off"
                    /\ out' = <<>>
                    /\ qsp_calls = << <<"qsp_disable">> >>
                    /\ ~qsp_enabled'
                    /\ qsp_entries' = qsp_entries
                    /\ relayed = {}
             reset == /\ op = "reset"
                      /\ out' = <<>>
                      /\ qsp_calls = << <<"qsp_reset">> >>
                      /\ qsp_enabled' = qsp_enabled
                      /\ qsp_entries' = 0
                      /\ relayed = {}
             invalid == /\ op \notin {NullStr, "on", "off", "reset"}
                        /\ qsp_calls = <<>>
                        /\ UNCHANGED <<qsp_enabled, qsp_entries>>
                        /\ Cardinality(relayed) = 1
                        /\ Len(out') = 1
                        /\ out'[1][1] = "Error: "
                        /\ out'[1][2] = QERR_INVALID_PARAMETER(op)
         IN  /\ shown \/ on \/ off \/ reset \/ invalid
             /\ Cardinality({b \in {<<1, shown>>, <<2, on>>, <<3, off>>,
                                    <<4, reset>>, <<5, invalid>>} : b[2]}) = 1
             /\ UNCHANGED <<config, ncpus, mon_cpu, suspended, crashed>>
      ]_vars

\* C10 witness: with the profiler on and counters recorded, sync-profile
\* without op printed "sync-profile is on" and the counters are still there.
C10_Witness ==
    /\ Returned
    /\ cmd.name = "sync-profile"
    /\ cmd.op = NullStr
    /\ qsp_enabled
    /\ qsp_entries > 0
    /\ out = << <<"sync-profile is ", "on", "\n">> >>

\* C11: every quit command suspends the session, by one call of
\* monitor_suspend made before the one call of qmp_quit; no other command
\* calls monitor_suspend or changes whether the session is suspended.
C11_OnlyQuitSuspends ==
    [][/\ Runs("quit") =>
            /\ suspended'
            /\ Occurrences(log', <<"monitor_suspend">>) = 1
            /\ Occurrences(log', <<"call", "qmp_quit">>) = 1
            /\ \A i, j \in DOMAIN log' :
                 (log'[i] = <<"monitor_suspend">> /\ log'[j] = <<"call", "qmp_quit">>)
                 => i < j
       /\ ~Runs("quit") => suspended' = suspended
       /\ (pc = "idle" /\ pc' # "idle" /\ cmd'.name # "quit") =>
            Occurrences(log', <<"monitor_suspend">>) = 0
      ]_vars

\* C11 witness: quit ran; the session is suspended and the suspension was
\* logged ahead of the request.
C11_Witness ==
    /\ Returned
    /\ cmd.name = "quit"
    /\ suspended
    /\ log = << <<"monitor_suspend">>, <<"call", "qmp_quit">> >>

-----------------------------------------------------------------------------
(* Properties of the list dumpers.                                         *)

DumpDone == pc = "return" /\ cmd.name \in {"hmp_virtio_dump_status",
                                           "hmp_virtio_dump_protocols",
                                           "hmp_virtio_dump_features"}

IsElement(c) == Len(c) = 2 /\ c[1] = "\t"

\* The position of the first chunk "\n" of seq, 0 when there is none.
FirstNewline(seq) ==
    LET at == {i \in DOMAIN seq : seq[i] = <<"\n">>}
    IN  IF at = {} THEN 0 ELSE CHOOSE i \in at : \A j \in at : i <= j

\* seg is the output for list l with seps separators: the elements once
\* each in list order as "\t<value>", seps times ",\n", each between two
\* elements, and one "\n" at the end.
IsListOutput(seg, l, seps) ==
    /\ SelectSeq(seg, IsElement) = [i \in DOMAIN l |-> <<"\t", l[i]>>]
    /\ Occurrences(seg, <<",\n">>) = seps
    /\ Occurrences(seg, <<"\n">>) = 1
    /\ seg # <<>>
    /\ seg[Len(seg)] = <<"\n">>
    /\ \A i \in DOMAIN seg : IsElement(seg[i]) \/ seg[i] \in {<<",\n">>, <<"\n">>}
    /\ \A i \in DOMAIN seg :
         seg[i] = <<",\n">> => /\ i > 1
                               /\ i < Len(seg)
                               /\ IsElement(seg[i - 1])
                               /\ IsElement(seg[i + 1])

\* rest is the unknown-bits line when the flag is set, and nothing otherwise.
IsUnknownLine(rest, flag, head, bits) ==
    IF flag THEN rest = << <<head, Hex(bits, 16), ")\n">> >> ELSE rest = <<>>

\* What the dumpers printed, with seps(n) separators for a list of n.
DumpShape(seps(_)) ==
    DumpDone =>
      LET r == cmd.record
          n1 == FirstNewline(out)
          seg1 == SubSeq(out, 1, n1)
          rest1 == SubSeq(out, n1 + 1, Len(out))
          n2 == FirstNewline(rest1)
          seg2 == SubSeq(rest1, 1, n2)
          rest2 == SubSeq(rest1, n2 + 1, Len(rest1))
      IN  IF cmd.name = "hmp_virtio_dump_status"
          THEN /\ IsListOutput(seg1, r.statuses, seps(Len(r.statuses)))
               /\ IsUnknownLine(rest1, r.has_unknown_statuses,
                                "  unknown-statuses(0x", r.unknown_statuses)
          ELSE IF cmd.name = "hmp_virtio_dump_protocols"
          THEN /\ IsListOutput(seg1, r.protocols, seps(Len(r.protocols)))
               /\ IsUnknownLine(rest1, r.has_unknown_protocols,
                                "  unknown-protocols(0x", r.unknown_protocols)
          ELSE /\ IsListOutput(seg1, r.transports, seps(Len(r.transports)))
               /\ IF r.dev_features = <<>>
                  THEN IsUnknownLine(rest1, r.has_unknown_dev_features,
                                     "  unknown-features(0x", r.unknown_dev_features)
                  ELSE /\ IsListOutput(seg2, r.dev_features,
                                       seps(Len(r.dev_features)))
                       /\ IsUnknownLine(rest2, r.has_unknown_dev_features,
                                        "  unknown-features(0x",
                                        r.unknown_dev_features)

\* C12 as stated: each list of n elements is printed with its elements once
\* in order as "\t<value>", exactly n - 1 separators ",\n" and one "\n" after
\* the last element; an empty dev_features list prints nothing; the
\* unknown-bits line follows iff the has_unknown flag is set.
C12_ListDumpersAsStated == DumpShape(LAMBDA n : n - 1)

\* C12 amended: as stated for lists of one element or more; an empty list
\* of statuses, protocols or transports prints no separator and still the
\* one "\n"; an empty dev_features list prints nothing.
C12_ListDumpers == DumpShape(LAMBDA n : IF n = 0 THEN 0 ELSE n - 1)

\* C12 witness: hmp_virtio_dump_features printed the lone "\n" of an empty
\* transports list, two dev_features and the unknown-bits line.
C12_Witness ==
    /\ DumpDone
    /\ cmd.name = "hmp_virtio_dump_features"
    /\ cmd.record.transports = <<>>
    /\ Len(cmd.record.dev_features) = 2
    /\ cmd.record.has_unknown_dev_features
    /\ Len(out) = 6
    /\ out[1] = <<"\n">>
    /\ out[3] = <<",\n">>
    /\ out[5] = <<"\n">>

-----------------------------------------------------------------------------
(* Properties of the schema value printer.                                 *)

SchemaValueDone == pc = "return" /\ cmd.name = "print_stats_schema_value"

\* The text written: the strings of all chunks, joined.
RECURSIVE JoinStrings(_)
JoinStrings(strs) ==
    IF strs = <<>> THEN "" ELSE Head(strs) \o JoinStrings(Tail(strs))

RECURSIVE Text(_)
Text(chunks) ==
    IF chunks = <<>> THEN "" ELSE JoinStrings(Head(chunks)) \o Text(Tail(chunks))

\* C13: the text is "    <name> (<type>", then ", " iff has_unit or a
\* non-zero exponent, then: the SI prefix and the unit letter iff has_unit,
\* unit seconds or bytes, base 10, exponent in [-18, 18] and a multiple of
\* 3; the IEC prefix and the unit letter iff has_unit, unit seconds or
\* bytes, base 2, exponent in [0, 60] and a multiple of 10; for any other
\* non-zero exponent "* <base>^<exponent>", no unit letter, and " " with
\* the unit's name iff has_unit; for exponent 0 otherwise the unit letter
\* or the unit's name iff has_unit; then the bucket size of a linear
\* histogram and ")".
C13_SchemaValueText ==
    SchemaValueDone =>
      LET v == cmd.value
          lettered == v.has_unit /\ v.unit \in {"seconds", "bytes"}
          letter == IF v.unit = "seconds" THEN "s" ELSE "B"
          si == /\ lettered
                /\ v.base = 10
                /\ v.exponent \in -18 .. 18
                /\ \E k \in -6 .. 6 : v.exponent = 3 * k
          iec == /\ lettered
                 /\ v.base = 2
                 /\ v.exponent \in 0 .. 60
                 /\ \E k \in 0 .. 6 : v.exponent = 10 * k
          sep == IF v.has_unit \/ v.exponent # 0 THEN ", " ELSE ""
          suffix == IF si THEN si_prefix(v.exponent) \o letter
                    ELSE IF iec THEN iec_binary_prefix(v.exponent) \o letter
                    ELSE IF v.exponent # 0
                    THEN "* " \o ToString(v.base) \o "^" \o ToString(v.exponent)
                         \o (IF v.has_unit THEN " " \o v.unit ELSE "")
                    ELSE IF lettered THEN letter
                    ELSE IF v.has_unit THEN v.unit
                    ELSE ""
          bucket == IF v.type = "linear-histogram" /\ v.has_bucket_size
                    THEN ", bucket size=" \o ToString(v.bucket_size) ELSE ""
      IN  Text(out) = "    " \o v.name \o " (" \o v.type \o sep \o suffix
                      \o bucket \o ")"

\* C13 witness: a negative multiple of 3 got its SI prefix, "us".
C13_Witness ==
    /\ SchemaValueDone
    /\ cmd.value.has_unit
    /\ cmd.value.unit = "seconds"
    /\ cmd.value.base = 10
    /\ cmd.value.exponent = -6
    /\ cmd.value.type = "cumulative"
    /\ Text(out) = "    a (cumulative, us)"

-----------------------------------------------------------------------------
(* Properties of info status.                                              *)

\* C14: info status writes "VM status: ", then "running" or "paused" by
\* running, then " (single step mode)" iff singlestep, then " (<state>)"
\* iff not running and the state is not paused, then one newline; while
\* running the text does not depend on the state.
C14_StatusText ==
    (Returned /\ cmd.name = "info status") =>
      LET info == cmd.reply.tree[1]
          step == IF info.singlestep THEN " (single step mode)" ELSE ""
      IN  /\ Text(out) =
               "VM status: "
               \o (IF info.running THEN "running" ELSE "paused")
               \o step
               \o (IF ~info.running /\ info.status # "paused"
                   THEN " (" \o info.status \o ")" ELSE "")
               \o "\n"
          /\ info.running => Text(out) = "VM status: running" \o step \o "\n"

\* C14 witness: a panicked guest, not running, not single-stepping.
C14_Witness ==
    /\ Returned
    /\ cmd.name = "info status"
    /\ cmd.reply.tree[1] = [running |-> FALSE, singlestep |-> FALSE,
                            status |-> "guest-panicked"]
    /\ Text(out) = "VM status: paused (guest-panicked)\n"

-----------------------------------------------------------------------------
(* Properties of virtio queue-element.                                     *)

\* C15: virtio queue-element makes its query with has-index true and the
\* value supplied exactly when the index argument was supplied, whatever
\* integer it is, and with has-index false only when it was absent.
C15_IndexPassedWhenSupplied ==
    (Returned /\ cmd.name = "virtio queue-element") =>
      /\ ret.query.has_index = cmd.index.has
      /\ cmd.index.has => ret.query.index = cmd.index.val

====
